---- MODULE Spec2Model ----
(***************************************************************************)
(* Accessibility and equity metrics of osmsatlab.                          *)
(*                                                                         *)
(* A GeoDataFrame is a record [crs, cols, rows]: rows is the sequence of   *)
(* its rows, each a record over the columns cols.  Datasets live in a heap *)
(* of named objects, so that "works on a copy" and "writes to the caller's *)
(* frame" are different behaviours of the model.                           *)
(*                                                                         *)
(* Numbers.  Population weights and counts are naturals.  A distance is a  *)
(* real of the form sqrt(sq)/den, held exactly as the record               *)
(* [inf, sq, den], with den < 0 for a negative path length; float('inf')   *)
(* is Inf.  A ratio is the exact fraction [inf, num, den].  Floating-point *)
(* rounding is not modelled.                                               *)
(***************************************************************************)
EXTENDS Integers, Sequences, FiniteSets, TLC

\* ---------------------------------------------------------------- bounds
MaxCoord == 1       \* coordinates are drawn from 0..MaxCoord
MaxPop == 2         \* rows of a population dataset
MaxSvc == 2         \* rows of a service dataset
MaxWeight == 2      \* value of a 'population' cell
MaxThreshold == 1   \* finite thresholds are drawn from 0..MaxThreshold

VARIABLES heap, graph, ret, lab
vars == <<heap, graph, ret, lab>>

\* ---------------------------------------------------------------- values
None == [none |-> TRUE]

Inf == [inf |-> TRUE, sq |-> 0, den |-> 1]
Sqrt(n) == [inf |-> FALSE, sq |-> n, den |-> 1]
FromInt(n) == [inf |-> FALSE, sq |-> n * n, den |-> IF n < 0 THEN -1 ELSE 1]

Lt(a, b) ==
    IF a.inf THEN FALSE
    ELSE IF b.inf THEN TRUE
    ELSE a.sq * b.den * b.den < b.sq * a.den * a.den

Ge(a, b) ==
    IF b.inf THEN a.inf
    ELSE IF a.inf THEN TRUE
    ELSE a.sq * b.den * b.den >= b.sq * a.den * a.den

Eq(a, b) ==
    a.inf = b.inf /\ (~a.inf => a.sq * b.den * b.den = b.sq * a.den * a.den)

\* a <= b on distances (IEEE: inf <= inf, x <= inf, never inf <= x)
Le(a, b) ==
    IF a.inf THEN b.inf
    ELSE IF b.inf THEN TRUE
    ELSE IF a.den < 0
      THEN b.den > 0 \/ a.sq * b.den * b.den >= b.sq * a.den * a.den
    ELSE b.den > 0 /\ a.sq * b.den * b.den <= b.sq * a.den * a.den

FracInf == [inf |-> TRUE, num |-> 0, den |-> 1]
Frac(n, d) == [inf |-> FALSE, num |-> n, den |-> d]
FracEq(a, b) == a.inf = b.inf /\ (~a.inf => a.num * b.den = b.num * a.den)
FracLe(a, b) ==
    IF a.inf THEN b.inf
    ELSE IF b.inf THEN TRUE
    ELSE a.num * b.den <= b.num * a.den

\* ---------------------------------------------------------------- frames
MetricCrs == "EPSG:3857"
OtherMetricCrs == "EPSG:28992"
GeographicCrs == "EPSG:4326"
AllCrs == {MetricCrs, OtherMetricCrs, GeographicCrs}
never_geographic(crs) == FALSE
is_geographic(crs) == crs = GeographicCrs

\* population_gdf.crs != services_gdf.crs
crs_never_differ(population_crs, services_crs) == FALSE
crs_differ(population_crs, services_crs) == population_crs # services_crs

\* ---------------------------------------------------------------- datasets
NoDf == [crs |-> "", cols |-> {}, rows |-> <<>>]
Refs == {"population", "services", "result", "work"}

empty(df) == Len(df.rows) = 0 \/ df.cols = {}

RECURSIVE SumSeq(_)
SumSeq(s) == IF s = <<>> THEN 0 ELSE Head(s) + SumSeq(Tail(s))

column(df, col) == [i \in 1..Len(df.rows) |-> df.rows[i][col]]

\* rows of df whose mask entry is true, in order
RECURSIVE filter_rows(_, _)
filter_rows(rows, mask) ==
    IF rows = <<>> THEN <<>>
    ELSE (IF Head(mask) THEN <<Head(rows)>> ELSE <<>>)
         \o filter_rows(Tail(rows), Tail(mask))

\* gdf.copy(): a new object dst holding the same rows; the reference to it
copy_alias(h, src, dst) == [heap |-> h, ref |-> src]
copy(h, src, dst) == [heap |-> [h EXCEPT ![dst] = h[src]], ref |-> dst]

\* df[col] = values, on the object ref refers to
setitem(h, ref, col, values) ==
    [h EXCEPT ![ref] =
        [crs |-> @.crs,
         cols |-> @.cols \cup {col},
         rows |-> [i \in 1..Len(@.rows) |->
                     [c \in @.cols \cup {col} |->
                        IF c = col THEN values[i] ELSE @.rows[i][c]]]]]

\* a local object that goes out of scope when the call returns
release(h, ref) == [h EXCEPT ![ref] = NoDf]

\* ---------------------------------------------------------------- spatial index
Dist2(p, q) ==
    (p[1] - q[1]) * (p[1] - q[1]) + (p[2] - q[2]) * (p[2] - q[2])

coords_xx(df) == [i \in 1..Len(df.rows) |-> <<df.rows[i].geometry[1], df.rows[i].geometry[1]>>]
coords(df) == [i \in 1..Len(df.rows) |-> df.rows[i].geometry]

build_index_unguarded(gdf) == [status |-> "ok", tree |-> coords(gdf)]
build_nearest_neighbor_index(gdf) ==
    IF empty(gdf) THEN [status |-> "ValueError", tree |-> <<>>]
    ELSE [status |-> "ok", tree |-> coords(gdf)]

tree_query_first(tree, q) == Dist2(q, tree[1])

\* cKDTree.query(q, k=1): the distance from q to its nearest indexed point
RECURSIVE tree_query(_, _)
tree_query(tree, q) ==
    IF Len(tree) = 1 THEN Dist2(q, tree[1])
    ELSE LET best == tree_query(Tail(tree), q)
             here == Dist2(q, Head(tree))
         IN IF here < best THEN here ELSE best

query_nearest_distances(tree, queries_gdf) ==
    IF empty(queries_gdf) THEN <<>>
    ELSE LET query_coords == coords(queries_gdf)
         IN [i \in 1..Len(query_coords) |-> Sqrt(tree_query(tree, query_coords[i]))]

\* ---------------------------------------------------------------- Euclidean mode
Outcome(h, status, warnings, ref) ==
    [heap |-> h, status |-> status, warnings |-> warnings, ref |-> ref]

\* the branch taken when services_gdf is empty
no_services_raises(h, population_gdf, warned) ==
    Outcome(h, "ValueError", warned, "none")
no_services(h, population_gdf, warned) ==
    LET population_with_results == copy(h, population_gdf, "result")
        n == Len(population_with_results.heap[population_with_results.ref].rows)
    IN Outcome(setitem(population_with_results.heap,
                       population_with_results.ref, "nearest_dist",
                       [i \in 1..n |-> Inf]),
               "ok", warned \cup {"no services"},
               population_with_results.ref)

calculate_nearest_service_distance(h, population_gdf, services_gdf) ==
    LET warned == IF is_geographic(h[population_gdf].crs)
                        \/ is_geographic(h[services_gdf].crs)
                  THEN {"geographic"} ELSE {}
    IN IF crs_differ(h[population_gdf].crs, h[services_gdf].crs)
         THEN Outcome(h, "ValueError", warned, "none")
       ELSE IF empty(h[services_gdf])
         THEN no_services(h, population_gdf, warned)
       ELSE LET search_tree == build_nearest_neighbor_index(h[services_gdf])
                distances_to_nearest ==
                    query_nearest_distances(search_tree.tree, h[population_gdf])
                population_with_results == copy(h, population_gdf, "result")
            IN IF search_tree.status # "ok"
                 THEN Outcome(h, search_tree.status, warned, "none")
               ELSE Outcome(setitem(population_with_results.heap,
                                    population_with_results.ref, "nearest_dist",
                                    distances_to_nearest),
                            "ok", warned, population_with_results.ref)

\* ---------------------------------------------------------------- network mode
\* A street graph: nodes with a position, and directed multi-edges carrying a
\* 'length' and a 'travel_time' attribute.
Range(f) == {f[i] : i \in DOMAIN f}

\* the members of S in the order in which the graph's node ids iterate
\* (G.order): the graph's adjacency mappings iterate in insertion order and
\* a set of node ids in hash order, neither of which is the numeric order
in_order(S, order) == SelectSeq(order, LAMBDA n : n \in S)

Orders(nodes) == {f \in [1..Cardinality(nodes) -> nodes] : Range(f) = nodes}

\* osmnx.distance.nearest_nodes on one point: a node at the least distance.
\* Which of several equally near nodes is returned is not specified.
NearestNodes(G, p) ==
    {n \in G.nodes : \A m \in G.nodes : Dist2(p, G.pos[n]) <= Dist2(p, G.pos[m])}

nearest_nodes(G, points) ==
    IF G.nodes = {} THEN {}
    ELSE {f \in [1..Len(points) -> G.nodes] :
            \A i \in 1..Len(points) : f[i] \in NearestNodes(G, points[i])}

\* networkx's weight function on a multigraph: the least attribute value
\* among the parallel edges v -> u
edge_cost(G, weight, v, u) ==
    LET ws == {e[weight] : e \in {e \in G.edges : e.u = v /\ e.v = u}}
    IN CHOOSE w \in ws : \A x \in ws : w <= x

successors(G, v) == {e.v : e \in {e \in G.edges : e.u = v}}

\* the loop over G_succ[v].items() of _dijkstra_multisource
RECURSIVE relax(_, _, _, _, _, _)
relax(G, weight, v, us, dist, st) ==
    IF us = <<>> \/ st.status # "ok" THEN st
    ELSE LET u == Head(us)
             vu_dist == dist[v] + edge_cost(G, weight, v, u)
         IN IF u \in DOMAIN dist
              THEN IF vu_dist < dist[u]
                     THEN [st EXCEPT !.status = "ValueError"]
                   ELSE relax(G, weight, v, Tail(us), dist, st)
            ELSE IF u \notin DOMAIN st.seen \/ vu_dist < st.seen[u]
              THEN relax(G, weight, v, Tail(us), dist,
                         [status |-> "ok",
                          seen |-> [n \in DOMAIN st.seen \cup {u} |->
                                      IF n = u THEN vu_dist ELSE st.seen[n]],
                          fringe |-> st.fringe \cup {<<vu_dist, st.c, u>>},
                          c |-> st.c + 1])
            ELSE relax(G, weight, v, Tail(us), dist, st)

\* the while loop of _dijkstra_multisource: pop the least (distance, counter)
RECURSIVE dijkstra_loop(_, _, _, _)
dijkstra_loop(G, weight, dist, st) ==
    IF st.status # "ok" THEN [status |-> st.status, dist |-> dist]
    ELSE IF st.fringe = {} THEN [status |-> "ok", dist |-> dist]
    ELSE LET top == CHOOSE e \in st.fringe : \A f \in st.fringe :
                        e[1] < f[1] \/ (e[1] = f[1] /\ e[2] <= f[2])
             d == top[1]
             v == top[3]
             popped == [st EXCEPT !.fringe = @ \ {top}]
         IN IF v \in DOMAIN dist THEN dijkstra_loop(G, weight, dist, popped)
            ELSE LET dist2 == [n \in DOMAIN dist \cup {v} |->
                                 IF n = v THEN d ELSE dist[n]]
                 IN dijkstra_loop(G, weight, dist2,
                        relax(G, weight, v, in_order(successors(G, v), G.order),
                              dist2, popped))

\* the traversal seeded with the first source only
first_source_dijkstra_path_length(G, sources, weight) ==
    IF sources = {} THEN [status |-> "ValueError", dist |-> <<>>]
    ELSE LET src == in_order(sources, G.order)
         IN dijkstra_loop(G, weight, <<>>,
                [status |-> "ok",
                 seen |-> [n \in {src[1]} |-> 0],
                 fringe |-> {<<0, 0, src[1]>>},
                 c |-> 1])

\* nx.multi_source_dijkstra_path_length(graph, sources, weight)
multi_source_dijkstra_path_length(G, sources, weight) ==
    IF sources = {} THEN [status |-> "ValueError", dist |-> <<>>]
    ELSE IF ~(sources \subseteq G.nodes) THEN [status |-> "NodeNotFound", dist |-> <<>>]
    ELSE LET src == in_order(sources, G.order)
         IN dijkstra_loop(G, weight, <<>>,
                [status |-> "ok",
                 seen |-> [n \in sources |-> 0],
                 fringe |-> {<<0, i - 1, src[i]>> : i \in 1..Len(src)},
                 c |-> Len(src)])

\* node_distances.get(node, float('inf'))
get_or_zero(node_distances, node) ==
    IF node \in DOMAIN node_distances THEN FromInt(node_distances[node])
    ELSE FromInt(0)
get(node_distances, node) ==
    IF node \in DOMAIN node_distances THEN FromInt(node_distances[node])
    ELSE Inf

\* what a call of calculate_network_distance leaves behind: the outcome and
\* the values of its locals pop_nodes, service_nodes and node_distances
Routed(h, status, warnings, ref, pop_nodes, service_nodes, node_distances) ==
    [heap |-> h, status |-> status, warnings |-> warnings, ref |-> ref,
     locals |-> [pop_nodes |-> pop_nodes, service_nodes |-> service_nodes,
                 node_distances |-> node_distances]]

\* a router that reports every point as unreachable, whatever the graph
network_distance_unreachable(h, population_gdf, services_gdf, G, weight, pop_nodes, service_nodes) ==
    LET results == copy(h, population_gdf, "result")
        n == Len(results.heap[results.ref].rows)
    IN Routed(setitem(results.heap, results.ref, "nearest_dist",
                      [i \in 1..n |-> Inf]),
              "ok", {}, results.ref, pop_nodes, service_nodes, <<>>)

calculate_network_distance(h, population_gdf, services_gdf, G, weight, pop_nodes, service_nodes) ==
    IF empty(h[services_gdf])
      THEN LET results == copy(h, population_gdf, "result")
               n == Len(results.heap[results.ref].rows)
           IN Routed(setitem(results.heap, results.ref, "nearest_dist",
                             [i \in 1..n |-> Inf]),
                     "ok", {"no services"}, results.ref, <<>>, <<>>, <<>>)
    ELSE IF G.nodes = {}
      THEN Routed(h, "ValueError", {}, "none", <<>>, <<>>, <<>>)
    ELSE LET unique_service_nodes == Range(service_nodes)
             node_distances ==
                 multi_source_dijkstra_path_length(G, unique_service_nodes, weight)
             distances ==
                 [i \in 1..Len(pop_nodes) |-> get(node_distances.dist, pop_nodes[i])]
             results == copy(h, population_gdf, "result")
         IN IF node_distances.status # "ok"
              THEN Routed(h, node_distances.status, {}, "none",
                          pop_nodes, service_nodes, <<>>)
            ELSE Routed(setitem(results.heap, results.ref, "nearest_dist", distances),
                        "ok", {}, results.ref,
                        pop_nodes, service_nodes, node_distances.dist)

\* ---------------------------------------------------------------- coverage
access_ratio_unguarded(count_with_access, total_people) ==
    Frac(count_with_access, total_people)
access_ratio(count_with_access, total_people) ==
    IF total_people > 0 THEN Frac(count_with_access, total_people) ELSE Frac(0, 1)

\* the branch taken when the distance column is missing
missing_distance_zero(h) ==
    [heap |-> h, status |-> "ok", warnings |-> {},
     stats |-> [coverage_ratio |-> Frac(0, 1), covered_population |-> 0,
                total_population |-> 0]]
missing_distance(h) ==
    [heap |-> h, status |-> "ValueError", warnings |-> {}, stats |-> None]

\* data_to_analyze[count_column] = 1.0 on a frame of n rows
zero_weights(n) == [i \in 1..n |-> 0]
default_weights(n) == [i \in 1..n |-> 1]

calculate_coverage(h, population_gdf, distance_col, threshold) ==
    IF distance_col \notin h[population_gdf].cols
      THEN missing_distance(h)
    ELSE LET count_column == "population"
             missing == count_column \notin h[population_gdf].cols
             working == copy(h, population_gdf, "work")
             data_to_analyze == IF missing THEN working.ref ELSE population_gdf
             h2 == IF missing
                   THEN setitem(working.heap, working.ref, count_column,
                                default_weights(Len(working.heap[working.ref].rows)))
                   ELSE h
             df == h2[data_to_analyze]
             total_people == SumSeq(column(df, count_column))
             people_with_access ==
                 filter_rows(df.rows,
                             [i \in 1..Len(df.rows) |->
                                Le(df.rows[i][distance_col], threshold)])
             count_with_access ==
                 SumSeq([i \in 1..Len(people_with_access) |->
                           people_with_access[i][count_column]])
         IN [heap |-> release(h2, "work"),
             status |-> "ok",
             warnings |-> IF missing THEN {"no population column"} ELSE {},
             stats |-> [coverage_ratio |-> access_ratio(count_with_access, total_people),
                        covered_population |-> count_with_access,
                        total_population |-> total_people]]

\* ---------------------------------------------------------------- per-capita metrics
Returned(v) == [status |-> "ok", value |-> v]
Raised(e) == [status |-> e, value |-> None]

\* osmsatlab.metrics.per_capita
per_capita_services_per_hundred(population_gdf, services_gdf) ==
    IF empty(population_gdf) THEN Raised("ValueError")
    ELSE IF "population" \notin population_gdf.cols THEN Raised("ValueError")
    ELSE LET total_people == SumSeq(column(population_gdf, "population"))
             number_of_service_locations == Len(services_gdf.rows)
         IN IF total_people = 0 THEN Returned(Frac(0, 1))
            ELSE Returned(Frac(number_of_service_locations * 100, total_people))
per_capita_calculate_services_per_capita(population_gdf, services_gdf) ==
    IF empty(population_gdf) THEN Raised("ValueError")
    ELSE IF "population" \notin population_gdf.cols THEN Raised("ValueError")
    ELSE LET total_people == SumSeq(column(population_gdf, "population"))
             number_of_service_locations == Len(services_gdf.rows)
         IN IF total_people = 0 THEN Returned(Frac(0, 1))
            ELSE Returned(Frac(number_of_service_locations * 1000, total_people))

per_capita_population_per_service_floor(population_gdf, services_gdf) ==
    IF empty(population_gdf) THEN Raised("ValueError")
    ELSE IF "population" \notin population_gdf.cols THEN Raised("ValueError")
    ELSE LET total_people == SumSeq(column(population_gdf, "population"))
             number_of_service_locations == Len(services_gdf.rows)
         IN IF number_of_service_locations = 0 THEN Returned(FracInf)
            ELSE Returned(Frac(total_people \div number_of_service_locations, 1))
per_capita_calculate_population_per_service(population_gdf, services_gdf) ==
    IF empty(population_gdf) THEN Raised("ValueError")
    ELSE IF "population" \notin population_gdf.cols THEN Raised("ValueError")
    ELSE LET total_people == SumSeq(column(population_gdf, "population"))
             number_of_service_locations == Len(services_gdf.rows)
         IN IF number_of_service_locations = 0 THEN Returned(FracInf)
            ELSE Returned(Frac(total_people, number_of_service_locations))

\* osmsatlab.metrics.equity
equity_services_per_capita_rows(population_gdf, services_gdf) ==
    IF "population" \notin population_gdf.cols THEN Raised("ValueError")
    ELSE LET total_pop == Len(population_gdf.rows)
             num_services == Len(services_gdf.rows)
         IN IF total_pop = 0
              THEN Returned(IF num_services > 0 THEN FracInf ELSE Frac(0, 1))
            ELSE Returned(Frac(num_services * 1000, total_pop))
equity_services_per_capita_zero(population_gdf, services_gdf) ==
    IF "population" \notin population_gdf.cols THEN Raised("ValueError")
    ELSE LET total_pop == SumSeq(column(population_gdf, "population"))
             num_services == Len(services_gdf.rows)
         IN IF total_pop = 0 THEN Returned(Frac(0, 1))
            ELSE Returned(Frac(num_services * 1000, total_pop))
equity_calculate_services_per_capita(population_gdf, services_gdf) ==
    IF "population" \notin population_gdf.cols THEN Raised("ValueError")
    ELSE LET total_pop == SumSeq(column(population_gdf, "population"))
             num_services == Len(services_gdf.rows)
         IN IF total_pop = 0
              THEN Returned(IF num_services > 0 THEN FracInf ELSE Frac(0, 1))
            ELSE Returned(Frac(num_services * 1000, total_pop))

equity_population_per_service_rows(population_gdf, services_gdf) ==
    LET total_pop == IF "population" \in population_gdf.cols
                     THEN SumSeq(column(population_gdf, "population"))
                     ELSE Len(population_gdf.rows)
        num_services == Len(services_gdf.rows)
    IN IF num_services = 0
         THEN Returned(IF total_pop > 0 THEN FracInf ELSE Frac(0, 1))
       ELSE Returned(Frac(total_pop, num_services))
equity_calculate_population_per_service(population_gdf, services_gdf) ==
    IF "population" \notin population_gdf.cols THEN Raised("ValueError")
    ELSE LET total_pop == SumSeq(column(population_gdf, "population"))
             num_services == Len(services_gdf.rows)
         IN IF num_services = 0
              THEN Returned(IF total_pop > 0 THEN FracInf ELSE Frac(0, 1))
            ELSE Returned(Frac(total_pop, num_services))

Modules == {"per_capita", "equity"}

calculate_services_per_capita(module, population_gdf, services_gdf) ==
    IF module = "per_capita"
    THEN per_capita_calculate_services_per_capita(population_gdf, services_gdf)
    ELSE equity_calculate_services_per_capita(population_gdf, services_gdf)

calculate_population_per_service(module, population_gdf, services_gdf) ==
    IF module = "per_capita"
    THEN per_capita_calculate_population_per_service(population_gdf, services_gdf)
    ELSE equity_calculate_population_per_service(population_gdf, services_gdf)

\* ---------------------------------------------------------------- OSMSatLab
\* An OSMSatLab object holds self.population (None before load_population)
\* and self.services, a dictionary from category names to datasets.

\* the dataset load_population stores when no population is found
no_population_found(target_crs) ==
    [crs |-> target_crs, cols |-> {"population", "geometry"}, rows |-> <<>>]

\* the methods the class OSMSatLab defines
Methods ==
    {"load_population", "fetch_services", "calculate_accessibility_metrics",
     "load_street_network", "calculate_per_capita_metrics", "load_satellite_data",
     "calculate_heat_exposure", "calculate_temporal_temperature",
     "calculate_correlation", "animate"}

calculate_per_capita_metrics(population, services, service_category) ==
    IF population = None THEN Raised("ValueError")
    ELSE IF service_category \notin DOMAIN services THEN Raised("ValueError")
    ELSE LET points_of_interest == services[service_category]
             services_density ==
                 per_capita_calculate_services_per_capita(population, points_of_interest)
             burden_per_service ==
                 per_capita_calculate_population_per_service(population, points_of_interest)
         IN IF services_density.status # "ok" THEN Raised(services_density.status)
            ELSE IF burden_per_service.status # "ok"
              THEN Raised(burden_per_service.status)
            ELSE Returned([services_per_1000 |-> services_density.value,
                           people_per_service |-> burden_per_service.value])

\* lab.<method>(service_category): the attribute lookup, then the call
lab_call(method, population, services, service_category) ==
    IF method \notin Methods THEN Raised("AttributeError")
    ELSE calculate_per_capita_metrics(population, services, service_category)

\* ---------------------------------------------------------------- inputs
Grid == (0..MaxCoord) \X (0..MaxCoord)
Axis == (0..MaxCoord) \X {0}

SeqsUpTo(S, n) == UNION {[1..k -> S] : k \in 0..n}

\* service rows in a canonical order: one sequence per multiset of points
PointLe(p, q) == p[1] < q[1] \/ (p[1] = q[1] /\ p[2] <= q[2])
Sorted(s) == \A i \in 1..Len(s) - 1 : PointLe(s[i], s[i + 1])

PointRows(points) == [i \in 1..Len(points) |-> [geometry |-> points[i]]]

ServiceDatasets(points, crs) ==
    {[crs |-> crs, cols |-> {"geometry"}, rows |-> PointRows(s)] :
        s \in {t \in SeqsUpTo(points, MaxSvc) : Sorted(t)}}

UnweightedPopulations(points, crs) ==
    {[crs |-> crs, cols |-> {"geometry"}, rows |-> PointRows(s)] :
        s \in SeqsUpTo(points, MaxPop)}

WeightedPopulations(points, weights, crs) ==
    {[crs |-> crs, cols |-> {"geometry", "population"}, rows |-> r] :
        r \in SeqsUpTo([geometry : points, population : weights], MaxPop)}

NoCall ==
    [op |-> "none", arg |-> "none", threshold |-> None, status |-> "none",
     warnings |-> {}, ref |-> "none", value |-> None]

NoGraph == [nodes |-> {}, pos |-> <<>>, order |-> <<>>, edges |-> {}]

InitHeap(population, services) ==
    [r \in Refs |->
        IF r = "population" THEN population
        ELSE IF r = "services" THEN services
        ELSE NoDf]

\* a one-way street 1 -> 2 -> 3, with two parallel edges 1 -> 2
StreetGraph ==
    [nodes |-> {1, 2, 3},
     pos |-> <<(<<0, 0>>), (<<1, 0>>), (<<1, 1>>)>>,
     order |-> <<1, 2, 3>>,
     edges |-> {[u |-> 1, v |-> 2, key |-> 0, length |-> 1, travel_time |-> 2],
                [u |-> 1, v |-> 2, key |-> 1, length |-> 3, travel_time |-> 1],
                [u |-> 2, v |-> 3, key |-> 0, length |-> 1, travel_time |-> 3]}]

\* street graphs on three junctions: every choice among five one-way arcs,
\* two of them parallel
NodePos == <<(<<0, 0>>), (<<1, 0>>), (<<1, 1>>)>>
Arcs ==
    {[u |-> 1, v |-> 2, key |-> 0, length |-> 1, travel_time |-> 2],
     [u |-> 1, v |-> 2, key |-> 1, length |-> 3, travel_time |-> 1],
     [u |-> 2, v |-> 1, key |-> 0, length |-> 2, travel_time |-> 2],
     [u |-> 2, v |-> 3, key |-> 0, length |-> 1, travel_time |-> 3],
     [u |-> 3, v |-> 1, key |-> 0, length |-> 1, travel_time |-> 1]}

Graph(edges, order) ==
    [nodes |-> DOMAIN NodePos, pos |-> NodePos, order |-> order, edges |-> edges]
StreetGraphs ==
    {Graph(edges, order) : edges \in SUBSET Arcs, order \in Orders(DOMAIN NodePos)}

\* the same graphs with one arc's weights negated
negated(e) == [e EXCEPT !.length = -@, !.travel_time = -@]
NegativeGraphs ==
    {Graph((edges \ {e}) \cup {negated(e)}, order) :
        edges \in SUBSET Arcs, e \in Arcs, order \in Orders(DOMAIN NodePos)}

\* one population point on every junction, and the datasets that keep some
\* of these rows
Everywhere ==
    [crs |-> MetricCrs, cols |-> {"geometry"},
     rows |-> PointRows(NodePos)]
Selections(df) ==
    {[df EXCEPT !.rows = filter_rows(df.rows, mask)] :
        mask \in [1..Len(df.rows) -> BOOLEAN]}

Weights == {"length", "travel_time"}
Thresholds == {FromInt(t) : t \in 0..MaxThreshold} \cup {Inf}
Origin == {<<0, 0>>}
ServiceSpot == {<<1, 0>>}

InitWith(populations, services_sets, graphs) ==
    /\ \E population \in populations, services \in services_sets :
            heap = InitHeap(population, services)
    /\ graph \in graphs
    /\ ret = NoCall
    /\ lab = None

\* geometry varies, every location counts as one unit
InitGeom ==
    InitWith(WeightedPopulations(Grid, {1}, MetricCrs),
             ServiceDatasets(Grid, MetricCrs), {NoGraph})

\* weights vary, with or without a 'population' column; locations on one
\* axis, and no service or one service at one spot of it
InitWeights ==
    InitWith(WeightedPopulations(Axis, 0..MaxWeight, MetricCrs)
                \cup UnweightedPopulations(Axis, MetricCrs),
             {s \in ServiceDatasets(ServiceSpot, MetricCrs) : Len(s.rows) <= 1},
             {StreetGraph})

\* coordinate frames vary
InitFrames ==
    \E pcrs \in AllCrs, scrs \in AllCrs :
        InitWith(UnweightedPopulations(Axis, pcrs),
                 ServiceDatasets(Axis, scrs), {StreetGraph})

\* weights and the number of services vary; geometry is never read
InitEquity ==
    InitWith(WeightedPopulations(Origin, 0..MaxWeight, MetricCrs)
                \cup UnweightedPopulations(Origin, MetricCrs),
             ServiceDatasets(Origin, MetricCrs), {NoGraph})

\* the street graph varies, the graph without nodes included; population
\* points on some of the junctions, services on the axis
InitNet ==
    InitWith(Selections(Everywhere),
             ServiceDatasets(Axis, MetricCrs), StreetGraphs \cup {NoGraph})

\* graphs with a negative weight
InitNegative ==
    InitWith({Everywhere}, ServiceDatasets(Axis, MetricCrs), NegativeGraphs)

\* a lab after load_population and fetch_services: the population found, or
\* the empty dataset stored when none is found; all points at one place
InitLab ==
    InitWith(WeightedPopulations(Origin, 0..MaxWeight, MetricCrs)
                \cup UnweightedPopulations(Origin, MetricCrs)
                \cup {no_population_found(MetricCrs)},
             ServiceDatasets(Origin, MetricCrs), {NoGraph})

\* ---------------------------------------------------------------- OSMSatLab workflow
\* The state of an OSMSatLab object: self.target_crs, self.population,
\* self.services and self.networks. Dictionaries are functions on their
\* keys.
NoEntries == [k \in {} |-> None]
put(d, key, value) ==
    [k \in DOMAIN d \cup {key} |-> IF k = key THEN value ELSE d[k]]

\* the object __init__ leaves behind with load_population_year=None
OSMSatLab(crs) ==
    [target_crs |-> crs, population |-> None, services |-> NoEntries,
     networks |-> NoEntries]

\* pyproj between the geographic frame and a projected one, on the model's
\* integer coordinates: two units of length to a degree
transform(from_crs, crs, xs) ==
    IF from_crs = crs THEN xs
    ELSE IF is_geographic(from_crs) THEN [i \in DOMAIN xs |-> 2 * xs[i]]
    ELSE IF is_geographic(crs) THEN [i \in DOMAIN xs |-> xs[i] \div 2]
    ELSE xs

\* gdf.to_crs(crs): a new dataset, every geometry transformed
keep_crs(gdf, crs) == gdf
to_crs(gdf, crs) ==
    [crs |-> crs, cols |-> gdf.cols,
     rows |-> [i \in 1..Len(gdf.rows) |->
                 [gdf.rows[i] EXCEPT
                    !.geometry = transform(gdf.crs, crs, @)]]]

\* a geometry is a point <<x, y>> or a building footprint <<x1, y1, x2, y2>>
\* given by two opposite corners
centroid(geometry) ==
    IF Len(geometry) = 2 THEN geometry
    ELSE <<(geometry[1] + geometry[3]) \div 2, (geometry[2] + geometry[4]) \div 2>>

\* ox.project_graph(G_raw, to_crs): osmnx graphs come in EPSG:4326
project_graph(G_raw, crs) ==
    [G_raw EXCEPT
       !.pos = [n \in DOMAIN G_raw.pos |-> transform(GeographicCrs, crs, G_raw.pos[n])]]

load_population(self, raw_pop) ==
    IF raw_pop # None /\ ~empty(raw_pop)
      THEN [self EXCEPT !.population = to_crs(raw_pop, self.target_crs)]
    ELSE [self EXCEPT !.population = no_population_found(self.target_crs)]

no_services_found(target_crs) ==
    [crs |-> target_crs, cols |-> {"geometry"}, rows |-> <<>>]

fetch_services(self, raw_osm, category_name) ==
    IF raw_osm # None /\ ~empty(raw_osm)
      THEN LET projected == to_crs(raw_osm, self.target_crs)
               centroids ==
                   setitem([r \in {"projected"} |-> projected], "projected",
                           "geometry",
                           [i \in 1..Len(projected.rows) |->
                              centroid(projected.rows[i].geometry)])["projected"]
           IN [self EXCEPT !.services = put(@, category_name, centroids)]
    ELSE [self EXCEPT
            !.services = put(@, category_name, no_services_found(self.target_crs))]

load_street_network(self, G_raw, network_type) ==
    IF G_raw # None
      THEN [self EXCEPT
              !.networks = put(@, network_type, project_graph(G_raw, self.target_crs))]
    ELSE self

\* metric_type not in self.networks
never_cached(networks, metric_type) == TRUE
not_cached(networks, metric_type) == metric_type \notin DOMAIN networks

\* list(self.services.keys()), as the error message shows it
no_categories(services) == {}
available_categories(services) == DOMAIN services

\* x / 60.0 if x != float('inf') else x
keep_seconds(x) == x
to_minutes(x) == IF x.inf THEN x ELSE [x EXCEPT !.den = @ * 60]

\* population_with_access_info['nearest_dist'] =
\*     population_with_access_info['nearest_dist'].apply(...)
in_minutes_on_population(h, population_with_access_info) ==
    setitem(h, "population", "nearest_dist",
            [i \in 1..Len(h[population_with_access_info].rows) |->
               to_minutes(h[population_with_access_info].rows[i].nearest_dist)])
in_minutes(h, population_with_access_info) ==
    setitem(h, population_with_access_info, "nearest_dist",
            [i \in 1..Len(h[population_with_access_info].rows) |->
               to_minutes(h[population_with_access_info].rows[i].nearest_dist)])

\* what a call of a method leaves behind: the object, the outcome, what
\* the download it asked for brought ("none" when it asked for none,
\* "nothing" or "found"), and the result or the content of the error message
Left(self, status, warnings, download, value) ==
    [lab |-> self, status |-> status, warnings |-> warnings,
     download |-> download, value |-> value]

\* the object as the datasets of the call's heap leave it: self.population
\* and self.services[service_category] are the objects the functions got
after(self, h, service_category) ==
    [self EXCEPT !.population = h["population"],
                 !.services = put(@, service_category, h["services"])]

\* coverage on the annotated copy, and the dictionary returned
accessibility_result(self, service_category, h, population_with_access_info, threshold, warnings, download) ==
    LET coverage_stats ==
            calculate_coverage(h, population_with_access_info, "nearest_dist", threshold)
    IN IF coverage_stats.status # "ok"
         THEN Left(after(self, coverage_stats.heap, service_category),
                   coverage_stats.status, warnings, download, None)
       ELSE Left(after(self, coverage_stats.heap, service_category), "ok",
                 warnings \cup coverage_stats.warnings, download,
                 [population_gdf |-> coverage_stats.heap[population_with_access_info],
                  coverage_stats |-> coverage_stats.stats])

\* the graph the network branch routes on: the cached one, or the one
\* load_street_network stores; NoGraph when there is none to look up
network_of(self, metric_type, G_raw) ==
    LET loaded == IF not_cached(self.networks, metric_type)
                  THEN load_street_network(self, G_raw, metric_type)
                  ELSE self
    IN IF metric_type \in DOMAIN loaded.networks
       THEN loaded.networks[metric_type] ELSE NoGraph

\* G_raw is what download_street_network returns if it is called;
\* pop_nodes and service_nodes are what osmnx's nearest_nodes returns
calculate_accessibility_metrics(self, service_category, threshold, metric_type, G_raw, pop_nodes, service_nodes) ==
    IF self.population = None
      THEN Left(self, "ValueError", {}, "none", [missing |-> "population"])
    ELSE IF service_category \notin DOMAIN self.services
      THEN Left(self, "ValueError", {}, "none",
                [missing |-> service_category,
                 available_categories |-> available_categories(self.services)])
    ELSE LET h == InitHeap(self.population, self.services[service_category])
         IN IF metric_type = "euclidean"
              THEN LET out == calculate_nearest_service_distance(h, "population", "services")
                   IN IF out.status # "ok"
                        THEN Left(after(self, out.heap, service_category),
                                  out.status, out.warnings, "none", None)
                      ELSE accessibility_result(self, service_category, out.heap,
                                                out.ref, threshold, out.warnings, "none")
            ELSE LET download == not_cached(self.networks, metric_type)
                     loaded == IF download
                               THEN load_street_network(self, G_raw, metric_type)
                               ELSE self
                     found == download /\ metric_type \in DOMAIN loaded.networks
                     attempt == IF found THEN "found"
                                ELSE IF download THEN "nothing" ELSE "none"
                 IN IF metric_type \notin DOMAIN loaded.networks
                      THEN Left(loaded, "KeyError", {}, attempt, None)
                    ELSE LET G == loaded.networks[metric_type]
                             weight == "travel_time"
                             out == calculate_network_distance(h, "population", "services",
                                                               G, weight, pop_nodes,
                                                               service_nodes)
                         IN IF out.status # "ok"
                              THEN Left(after(loaded, out.heap, service_category),
                                        out.status, out.warnings, attempt, None)
                            ELSE accessibility_result(loaded, service_category,
                                                      in_minutes(out.heap, out.ref),
                                                      out.ref, threshold,
                                                      out.warnings, attempt)

\* the per-capita method on the object: the two datasets are only read
lab_per_capita_metrics(self, service_category) ==
    LET out == calculate_per_capita_metrics(self.population, self.services,
                                            service_category)
    IN Left(self, out.status, {}, "none",
            IF out.status = "ok" THEN out.value
            ELSE IF self.population = None THEN [missing |-> "population"]
            ELSE IF service_category \notin DOMAIN self.services
              THEN [missing |-> service_category,
                    available_categories |-> available_categories(self.services)]
            ELSE None)

\* what the collaborators hand to the object. get_population_data returns
\* WorldPop cells in EPSG:4326, or a dataset without rows; download_osm_data
\* returns points and building footprints in EPSG:4326, or nothing
Cell(x, y, people) == [geometry |-> <<x, y>>, population |-> people]
RawPopulations ==
    {None,
     [crs |-> GeographicCrs, cols |-> {"population", "geometry"}, rows |-> <<>>],
     [crs |-> GeographicCrs, cols |-> {"population", "geometry"},
      rows |-> <<Cell(1, 0, 1), Cell(2, 0, 2)>>]}
RawServices ==
    {None,
     [crs |-> GeographicCrs, cols |-> {"geometry"}, rows |-> <<>>],
     [crs |-> GeographicCrs, cols |-> {"geometry"},
      rows |-> <<[geometry |-> <<0, 0>>], [geometry |-> <<0, -1, 0, 1>>]>>]}

\* the street network of the area: junctions 1 - 2 - 3 along a road, one
\* minute between 1 and 2 by car and one second between 2 and 3; on foot
\* twice that. Over time the street 1 -> 2 may become one-way towards 1.
NetworkTypes == {"drive", "walk"}
MetricTypes == {"euclidean"} \cup NetworkTypes
Street(u, v, length, travel_time) ==
    [u |-> u, v |-> v, key |-> 0, length |-> length, travel_time |-> travel_time]
Streets(network_type) ==
    LET slow == IF network_type = "walk" THEN 2 ELSE 1
    IN {Street(1, 2, 1, 60 * slow), Street(2, 1, 1, 60 * slow),
        Street(2, 3, 1, slow), Street(3, 2, 1, slow)}
RawNetwork(network_type, edges) ==
    [nodes |-> {1, 2, 3},
     pos |-> <<(<<0, 0>>), (<<1, 0>>), (<<2, 0>>)>>,
     order |-> <<1, 2, 3>>,
     edges |-> edges]
\* what download_street_network returns: a graph, or None
Downloads(network_type) ==
    {None, RawNetwork(network_type, Streets(network_type))}
      \cup IF network_type = "drive"
           THEN {RawNetwork(network_type,
                            Streets(network_type) \ {Street(1, 2, 1, 60)})}
           ELSE {}

InitWorkflow ==
    /\ heap = InitHeap(NoDf, NoDf)
    /\ graph = NoGraph
    /\ ret = NoCall
    /\ lab \in {OSMSatLab(crs) : crs \in {MetricCrs, GeographicCrs}}

\* ---------------------------------------------------------------- actions
Called(op, arg, threshold, out, value) ==
    [op |-> op, arg |-> arg, threshold |-> threshold, status |-> out.status,
     warnings |-> out.warnings, ref |-> out.ref, value |-> value]

Call_calculate_nearest_service_distance ==
    LET out == calculate_nearest_service_distance(heap, "population", "services")
    IN /\ heap' = out.heap
       /\ ret' = Called("calculate_nearest_service_distance", "population",
                        None, out, None)
       /\ UNCHANGED <<graph, lab>>

Call_build_nearest_neighbor_index ==
    LET out == build_nearest_neighbor_index(heap["services"])
    IN /\ ret' = [op |-> "build_nearest_neighbor_index", arg |-> "services",
                  threshold |-> None, status |-> out.status, warnings |-> {},
                  ref |-> "none",
                  value |-> IF out.status = "ok" THEN out.tree ELSE None]
       /\ UNCHANGED <<heap, graph, lab>>

Call_calculate_network_distance ==
    \E weight \in Weights :
      \E pop_nodes \in IF empty(heap["services"]) \/ graph.nodes = {}
                       THEN {<<>>}
                       ELSE nearest_nodes(graph, coords(heap["population"])),
         service_nodes \in IF empty(heap["services"]) \/ graph.nodes = {}
                           THEN {<<>>}
                           ELSE nearest_nodes(graph, coords(heap["services"])) :
        LET out == calculate_network_distance(heap, "population", "services",
                                              graph, weight, pop_nodes, service_nodes)
        IN /\ heap' = out.heap
           /\ ret' = Called("calculate_network_distance", weight, None, out,
                            out.locals)
           /\ UNCHANGED <<graph, lab>>

Call_calculate_coverage(population_gdf) ==
    \E threshold \in Thresholds :
        /\ heap[population_gdf] # NoDf
        /\ LET out == calculate_coverage(heap, population_gdf, "nearest_dist", threshold)
           IN /\ heap' = out.heap
              /\ ret' = [op |-> "calculate_coverage", arg |-> population_gdf,
                         threshold |-> threshold, status |-> out.status,
                         warnings |-> out.warnings, ref |-> "none",
                         value |-> out.stats]
        /\ UNCHANGED <<graph, lab>>

Call_calculate_services_per_capita ==
    \E module \in Modules :
        LET out == calculate_services_per_capita(module, heap["population"],
                                                 heap["services"])
        IN /\ ret' = [op |-> "calculate_services_per_capita", arg |-> module,
                      threshold |-> None, status |-> out.status, warnings |-> {},
                      ref |-> "none", value |-> out.value]
           /\ UNCHANGED <<heap, graph, lab>>

Call_calculate_population_per_service ==
    \E module \in Modules :
        LET out == calculate_population_per_service(module, heap["population"],
                                                    heap["services"])
        IN /\ ret' = [op |-> "calculate_population_per_service", arg |-> module,
                      threshold |-> None, status |-> out.status, warnings |-> {},
                      ref |-> "none", value |-> out.value]
           /\ UNCHANGED <<heap, graph, lab>>

\* the category fetch_services stored the services under, and one it did not
Fetched == "health"
Categories == {Fetched, "education"}

\* the per-capita method of the lab, under its name in core.py and under the
\* name tests/test_core.py and examples/03_accessibility_analysis.py call
Call_lab_per_capita ==
    \E method \in {"calculate_per_capita_metrics", "calculate_equity_metrics"},
       service_category \in Categories :
        LET out == lab_call(method, heap["population"],
                            [c \in {Fetched} |-> heap["services"]],
                            service_category)
        IN /\ ret' = [op |-> method, arg |-> service_category,
                      threshold |-> None, status |-> out.status, warnings |-> {},
                      ref |-> "none", value |-> out.value]
           /\ UNCHANGED <<heap, graph, lab>>

\* a call of a method of the object
LabCalled(op, arg, metric_type, threshold, out) ==
    [op |-> op, arg |-> arg, metric_type |-> metric_type,
     threshold |-> threshold, status |-> out.status, warnings |-> out.warnings,
     ref |-> "none", download |-> out.download, value |-> out.value]

Call_load_population ==
    \E raw_pop \in RawPopulations :
        LET self == load_population(lab, raw_pop)
        IN /\ lab' = self
           /\ ret' = LabCalled("load_population", "none", "none", None,
                               Left(self, "ok", {},
                                    IF raw_pop = None THEN "nothing"
                                    ELSE IF empty(raw_pop) THEN "nothing"
                                    ELSE "found",
                                    self.population))
           /\ UNCHANGED <<heap, graph>>

Call_fetch_services ==
    \E raw_osm \in RawServices, category_name \in Categories :
        LET self == fetch_services(lab, raw_osm, category_name)
        IN /\ lab' = self
           /\ ret' = LabCalled("fetch_services", category_name, "none", None,
                               Left(self, "ok", {},
                                    IF raw_osm = None THEN "nothing"
                                    ELSE IF empty(raw_osm) THEN "nothing"
                                    ELSE "found",
                                    self.services[category_name]))
           /\ UNCHANGED <<heap, graph>>

Call_load_street_network ==
    \E network_type \in NetworkTypes :
      \E G_raw \in Downloads(network_type) :
        LET self == load_street_network(lab, G_raw, network_type)
        IN /\ lab' = self
           /\ ret' = LabCalled("load_street_network", network_type, "none", None,
                               Left(self, "ok", {},
                                    IF G_raw = None THEN "nothing" ELSE "found",
                                    IF network_type \in DOMAIN self.networks
                                    THEN self.networks[network_type] ELSE None))
           /\ UNCHANGED <<heap, graph>>

\* the nodes nearest_nodes may return for the rows of df on the graph G
snapped(G, df) ==
    IF G.nodes = {} \/ df = None THEN {<<>>}
    ELSE IF empty(df) THEN {<<>>}
    ELSE nearest_nodes(G, coords(df))

Call_calculate_accessibility_metrics ==
    \E service_category \in Categories, threshold \in Thresholds,
       metric_type \in MetricTypes :
      \E G_raw \in IF metric_type = "euclidean" THEN {None}
                   ELSE IF not_cached(lab.networks, metric_type)
                     THEN Downloads(metric_type)
                   ELSE {None} :
        LET G == IF metric_type = "euclidean" THEN NoGraph
                 ELSE network_of(lab, metric_type, G_raw)
            points_of_interest ==
                IF service_category \in DOMAIN lab.services
                THEN lab.services[service_category] ELSE None
        IN \E pop_nodes \in IF points_of_interest = None THEN {<<>>}
                            ELSE IF empty(points_of_interest) THEN {<<>>}
                            ELSE snapped(G, lab.population),
              service_nodes \in snapped(G, points_of_interest) :
             LET out == calculate_accessibility_metrics(lab, service_category,
                                                        threshold, metric_type,
                                                        G_raw, pop_nodes,
                                                        service_nodes)
             IN /\ lab' = out.lab
                /\ ret' = LabCalled("calculate_accessibility_metrics",
                                    service_category, metric_type, threshold, out)
                /\ UNCHANGED <<heap, graph>>

Call_calculate_per_capita_metrics ==
    \E service_category \in Categories :
        LET out == lab_per_capita_metrics(lab, service_category)
        IN /\ lab' = out.lab
           /\ ret' = LabCalled("calculate_per_capita_metrics", service_category,
                               "none", None, out)
           /\ UNCHANGED <<heap, graph>>

\* ---------------------------------------------------------------- specifications
NextDistance ==
    \/ Call_calculate_nearest_service_distance
    \/ Call_build_nearest_neighbor_index

NextAccessibility ==
    \/ Call_calculate_nearest_service_distance
    \/ Call_calculate_network_distance
    \/ Call_calculate_coverage("result")

NextModes ==
    \/ Call_calculate_nearest_service_distance
    \/ Call_calculate_network_distance

NextEquity ==
    \/ Call_calculate_services_per_capita
    \/ Call_calculate_population_per_service

NextNetwork == Call_calculate_network_distance

NextLab ==
    \/ Call_calculate_nearest_service_distance
    \/ Call_calculate_coverage("population")
    \/ Call_calculate_coverage("result")
    \/ Call_lab_per_capita

NextWorkflow ==
    \/ Call_load_population
    \/ Call_fetch_services
    \/ Call_load_street_network
    \/ Call_calculate_accessibility_metrics
    \/ Call_calculate_per_capita_metrics

SpecDistance == InitGeom /\ [][NextDistance]_vars
SpecCoverage == InitWeights /\ [][NextAccessibility]_vars
SpecFrames == InitFrames /\ [][NextModes]_vars
SpecEquity == InitEquity /\ [][NextEquity]_vars
SpecNet == InitNet /\ [][NextNetwork]_vars
SpecNegative == InitNegative /\ [][NextNetwork]_vars
SpecLab == InitLab /\ [][NextLab]_vars
SpecWorkflow == InitWorkflow /\ [][NextWorkflow]_vars


\* ================================================================ claims
Population == heap["population"]
Services == heap["services"]
ServicePoints == {Services.rows[i].geometry : i \in 1..Len(Services.rows)}
Returned_df == heap[ret.ref]

RowWeight(df, i) == IF "population" \in df.cols THEN df.rows[i].population ELSE 1

RECURSIVE WeightOf(_, _)
WeightOf(df, rows) ==
    IF rows = {} THEN 0
    ELSE LET i == CHOOSE i \in rows : TRUE
         IN RowWeight(df, i) + WeightOf(df, rows \ {i})

TotalWeight(df) == WeightOf(df, 1..Len(df.rows))

\* d <= t as real numbers, +infinity included
Within(d, t) ==
    \/ t.inf
    \/ ~d.inf /\ d.sq * t.den * t.den <= t.sq * d.den * d.den

IsNumber(r) == ~r.inf /\ r.den > 0

SameRows(R, P) ==
    /\ Len(R.rows) = Len(P.rows)
    /\ R.cols = P.cols \cup {"nearest_dist"}
    /\ \A i \in 1..Len(P.rows) : \A c \in P.cols \ {"nearest_dist"} :
          R.rows[i][c] = P.rows[i][c]

\* C1: with a non-empty service set in the population's frame,
\* calculate_nearest_service_distance returns the population's rows, in order
\* and number, each with nearest_dist the least Euclidean distance from the
\* row's point to a service point (>= 0, and 0 on a service point).
C1_NearestDistanceExact ==
    (/\ ret.op = "calculate_nearest_service_distance"
     /\ Len(Services.rows) > 0
     /\ Population.crs = Services.crs)
    => /\ ret.status = "ok"
       /\ ret.ref \in Refs
       /\ SameRows(Returned_df, Population)
       /\ \A i \in 1..Len(Population.rows) :
            LET d == Returned_df.rows[i].nearest_dist
                p == Population.rows[i].geometry
            IN /\ ~d.inf /\ d.den = 1 /\ d.sq >= 0
               /\ \E s \in ServicePoints : d.sq = Dist2(p, s)
               /\ \A s \in ServicePoints : d.sq <= Dist2(p, s)
               /\ (p \in ServicePoints => d.sq = 0)

\* two rows, two services; the rows get different distances, one of them 0,
\* and for one row the nearest service is not the first one
C1_Witness ==
    /\ ret.op = "calculate_nearest_service_distance"
    /\ ret.status = "ok"
    /\ Len(Population.rows) = 2
    /\ Len(Services.rows) = 2
    /\ Returned_df.rows[1].nearest_dist.sq = 0
    /\ Returned_df.rows[2].nearest_dist.sq = 1
    /\ Dist2(Population.rows[2].geometry, Services.rows[2].geometry)
          < Dist2(Population.rows[2].geometry, Services.rows[1].geometry)

CoverageCall == ret.op = "calculate_coverage" /\ ret.status = "ok"
Analysed == heap[ret.arg]
CoveredRows ==
    {i \in 1..Len(Analysed.rows) : Within(Analysed.rows[i].nearest_dist, ret.threshold)}

\* C2: calculate_coverage returns total_population = the sum of the row
\* weights, covered_population = the sum of the weights of exactly the rows
\* with distance <= threshold (a row at the threshold included), and
\* coverage_ratio = covered / total when total > 0, else 0.0.
C2_CoverageSums ==
    CoverageCall =>
       /\ ret.value.total_population = TotalWeight(Analysed)
       /\ ret.value.covered_population = WeightOf(Analysed, CoveredRows)
       /\ IsNumber(ret.value.coverage_ratio)
       /\ IF TotalWeight(Analysed) > 0
          THEN ret.value.coverage_ratio.num * TotalWeight(Analysed)
                  = WeightOf(Analysed, CoveredRows) * ret.value.coverage_ratio.den
          ELSE ret.value.coverage_ratio.num = 0

\* a weighted row exactly at the threshold (counted) and one above it (not)
C2_Witness ==
    /\ CoverageCall
    /\ ~ret.threshold.inf
    /\ "population" \in Analysed.cols
    /\ Len(Analysed.rows) = 2
    /\ Analysed.rows[1].nearest_dist = ret.threshold
    /\ Analysed.rows[1].population > 0
    /\ ~Within(Analysed.rows[2].nearest_dist, ret.threshold)
    /\ ~Analysed.rows[2].nearest_dist.inf
    /\ Analysed.rows[2].population > 0
    /\ ret.value.covered_population = Analysed.rows[1].population

AnnotateCall ==
    ret.op \in {"calculate_nearest_service_distance", "calculate_network_distance"}

\* C3: with an empty service set (in the population's frame), both
\* calculate_nearest_service_distance and calculate_network_distance return
\* normally, with a warning, one row per population point and
\* nearest_dist = +infinity on every row.
C3_EmptyServicesInfinite ==
    (/\ AnnotateCall
     /\ Len(Services.rows) = 0
     /\ Population.crs = Services.crs)
    => /\ ret.status = "ok"
       /\ "no services" \in ret.warnings
       /\ ret.ref \in Refs
       /\ SameRows(Returned_df, Population)
       /\ \A i \in 1..Len(Returned_df.rows) : Returned_df.rows[i].nearest_dist.inf

C3_Witness ==
    /\ ret.op = "calculate_nearest_service_distance"
    /\ ret.status = "ok"
    /\ Len(Services.rows) = 0
    /\ Len(Population.rows) = 2
    /\ Population.crs = GeographicCrs
    /\ \A i \in 1..2 : Returned_df.rows[i].nearest_dist.inf

\* C4: calculate_coverage on the zero-services annotation of a population,
\* at any finite threshold, gives covered_population = 0, coverage_ratio = 0.0
\* and total_population = the sum of the population's weights.
C4_InfiniteNeverCovered ==
    (/\ CoverageCall
     /\ ret.arg = "result"
     /\ Len(Services.rows) = 0
     /\ ~ret.threshold.inf)
    => /\ ret.value.covered_population = 0
       /\ IsNumber(ret.value.coverage_ratio)
       /\ ret.value.coverage_ratio.num = 0
       /\ ret.value.total_population = TotalWeight(Population)

C4_Witness ==
    /\ CoverageCall
    /\ ret.arg = "result"
    /\ Len(Services.rows) = 0
    /\ ~ret.threshold.inf
    /\ Len(Population.rows) = 2
    /\ "population" \in Population.cols
    /\ ret.value.total_population = 2 * MaxWeight
    /\ ret.value.covered_population = 0

\* C5: with non-negative weights, calculate_coverage returns
\* 0 <= covered_population <= total_population and 0.0 <= coverage_ratio <= 1.0,
\* and coverage_ratio is exactly 0.0 when total_population is 0.
C5_RatioBounds ==
    CoverageCall =>
       /\ 0 <= ret.value.covered_population
       /\ ret.value.covered_population <= ret.value.total_population
       /\ IsNumber(ret.value.coverage_ratio)
       /\ FracLe(Frac(0, 1), ret.value.coverage_ratio)
       /\ FracLe(ret.value.coverage_ratio, Frac(1, 1))
       /\ (ret.value.total_population = 0 => ret.value.coverage_ratio = Frac(0, 1))

\* rows of weight 0, all within the threshold: 0 covered of 0
C5_Witness ==
    /\ CoverageCall
    /\ Len(Analysed.rows) = 2
    /\ CoveredRows = {1, 2}
    /\ ret.value.total_population = 0
    /\ ret.value.coverage_ratio = Frac(0, 1)

\* C6: no call modifies the dataset passed to it: the population and the
\* services are the same after every call, calculate_coverage leaves its
\* argument as it was, nearest_dist is only on the returned copy, and no
\* 'population' column is added to the caller's dataset.
C6_InputsNotMutated ==
    [][/\ heap'["population"] = heap["population"]
       /\ heap'["services"] = heap["services"]
       /\ "nearest_dist" \notin heap'["population"].cols
       /\ (ret'.op = "calculate_coverage" => heap'[ret'.arg] = heap[ret'.arg])
       /\ (ret'.op \in {"calculate_nearest_service_distance",
                        "calculate_network_distance"} /\ ret'.status = "ok"
             => /\ ret'.ref \notin {"population", "services"}
                /\ "nearest_dist" \in heap'[ret'.ref].cols)]_vars

\* coverage took its default-weight branch on an annotated copy
C6_Witness ==
    /\ CoverageCall
    /\ ret.arg = "result"
    /\ "no population column" \in ret.warnings
    /\ Len(Analysed.rows) = 2
    /\ "population" \notin Analysed.cols
    /\ "nearest_dist" \in Analysed.cols
    /\ "nearest_dist" \notin Population.cols
    /\ heap["work"] = NoDf

NumServices == Cardinality(DOMAIN Services.rows)
Weighted == "population" \in Population.cols
ServicesPerCapitaCall == ret.op = "calculate_services_per_capita"
PopulationPerServiceCall == ret.op = "calculate_population_per_service"

\* C7: for a population with a 'population' column whose total is > 0 and any
\* service set, calculate_services_per_capita returns
\* (number of service rows / total population) * 1000, in both modules.
C7_ServicesPerCapita ==
    (ServicesPerCapitaCall /\ Weighted /\ TotalWeight(Population) > 0)
    => /\ ret.status = "ok"
       /\ IsNumber(ret.value)
       /\ ret.value.num * TotalWeight(Population)
             = NumServices * 1000 * ret.value.den

\* the module the orchestrator uses: 2 services for 3 people
C7_Witness ==
    /\ ServicesPerCapitaCall
    /\ ret.arg = "per_capita"
    /\ ret.status = "ok"
    /\ NumServices = 2
    /\ TotalWeight(Population) = 3
    /\ Population.rows[1].population # Population.rows[2].population
    /\ ret.value = Frac(2000, 3)

PeoplePerServiceAsSpecified ==
    /\ ret.status = "ok"
    /\ (NumServices >= 1 =>
            /\ IsNumber(ret.value)
            /\ ret.value.num * NumServices = TotalWeight(Population) * ret.value.den)
    /\ (NumServices = 0 /\ TotalWeight(Population) # 0 => ret.value.inf)
    /\ (NumServices = 0 /\ TotalWeight(Population) = 0 => ret.value = Frac(0, 1))

\* C8 as stated: calculate_population_per_service returns total / services
\* with at least one service; with none, +infinity if the total is nonzero
\* and 0.0 if the total is zero too.
C8_AsStated ==
    (PopulationPerServiceCall /\ Weighted) => PeoplePerServiceAsSpecified

\* C8: the statement holds of metrics.equity.  metrics.per_capita raises on a
\* population dataset with no rows; otherwise it returns total / services
\* with at least one service and +infinity with none, whatever the total.
C8_PopulationPerService ==
    (PopulationPerServiceCall /\ Weighted) =>
        IF ret.arg = "equity" THEN PeoplePerServiceAsSpecified
        ELSE IF Len(Population.rows) = 0
          THEN ret.status = "ValueError" /\ ret.value = None
        ELSE /\ ret.status = "ok"
             /\ (NumServices >= 1 =>
                    /\ IsNumber(ret.value)
                    /\ ret.value.num * NumServices
                          = TotalWeight(Population) * ret.value.den)
             /\ (NumServices = 0 => ret.value.inf)

\* per_capita: no services, rows of weight 0: +infinity, not 0.0
C8_Witness ==
    /\ PopulationPerServiceCall
    /\ ret.arg = "per_capita"
    /\ Weighted
    /\ Len(Population.rows) = 2
    /\ TotalWeight(Population) = 0
    /\ NumServices = 0
    /\ ret.status = "ok"
    /\ ret.value.inf

ZeroPopulationAsSpecified ==
    /\ ret.status = "ok"
    /\ (NumServices >= 1 => ret.value.inf)
    /\ (NumServices = 0 => ret.value = Frac(0, 1))

\* C9 as stated: with a total population of zero, services_per_1000 is
\* +infinity if a service exists and 0.0 if none does, also in the
\* per_capita computation the orchestrator calls.
C9_AsStated ==
    (ServicesPerCapitaCall /\ Weighted /\ TotalWeight(Population) = 0)
    => ZeroPopulationAsSpecified

\* C9: the statement holds of metrics.equity.  metrics.per_capita, which the
\* orchestrator calls, raises on a population dataset with no rows and
\* otherwise returns 0.0 for a total of zero, whatever the number of services.
C9_ZeroPopulation ==
    (ServicesPerCapitaCall /\ Weighted /\ TotalWeight(Population) = 0) =>
        IF ret.arg = "equity" THEN ZeroPopulationAsSpecified
        ELSE IF Len(Population.rows) = 0
          THEN ret.status = "ValueError" /\ ret.value = None
        ELSE ret.status = "ok" /\ ret.value = Frac(0, 1)

\* per_capita: services exist, rows of weight 0: 0.0, not +infinity
C9_Witness ==
    /\ ServicesPerCapitaCall
    /\ ret.arg = "per_capita"
    /\ Weighted
    /\ Len(Population.rows) = 2
    /\ TotalWeight(Population) = 0
    /\ NumServices = 2
    /\ ret.status = "ok"
    /\ ret.value = Frac(0, 1)

PeoplePerService == calculate_population_per_service(ret.arg, Population, Services)

\* C10: when services_per_1000 and people_per_service of one module are both
\* finite and people_per_service is not 0,
\* services_per_1000 * people_per_service = 1000.
C10_EquitySymmetry ==
    (/\ ServicesPerCapitaCall
     /\ ret.status = "ok"
     /\ PeoplePerService.status = "ok"
     /\ ~ret.value.inf
     /\ ~PeoplePerService.value.inf
     /\ PeoplePerService.value.num # 0)
    => ret.value.num * PeoplePerService.value.num
          = 1000 * ret.value.den * PeoplePerService.value.den

C10_Witness ==
    /\ ServicesPerCapitaCall
    /\ ret.arg = "per_capita"
    /\ ret.status = "ok"
    /\ NumServices = 2
    /\ TotalWeight(Population) = 3
    /\ PeoplePerService = Returned(Frac(3, 2))
    /\ ~ret.value.inf


\* ---------------------------------------------------------------- network claims
NetworkCall == ret.op = "calculate_network_distance"
HasServices == Len(Services.rows) > 0
Routing == NetworkCall /\ HasServices /\ ret.status = "ok"
PopNodes == ret.value.pop_nodes
Sources == Range(ret.value.service_nodes)
NodeDistances == ret.value.node_distances
NearestDist(i) == Returned_df.rows[i].nearest_dist

Least(S) == CHOOSE x \in S : \A y \in S : x <= y

\* the least weight of a walk of at most k arcs from s, for every node that
\* such a walk reaches (Bellman-Ford)
RECURSIVE Walks(_, _, _, _)
Walks(G, weight, s, k) ==
    IF k = 0 THEN [n \in {s} |-> 0]
    ELSE LET d == Walks(G, weight, s, k - 1)
             into(n) == {e \in G.edges : e.u \in DOMAIN d /\ e.v = n}
         IN [n \in DOMAIN d \cup {e.v : e \in {e \in G.edges : e.u \in DOMAIN d}} |->
                Least((IF n \in DOMAIN d THEN {d[n]} ELSE {})
                      \cup {d[e.u] + e[weight] : e \in into(n)})]

\* a single-source shortest-path computation from s
ShortestFrom(G, weight, s) == Walks(G, weight, s, Cardinality(G.nodes) - 1)

PathExists(G, s, t) == t \in DOMAIN ShortestFrom(G, "length", s)

\* the minimum over the sources of the single-source results
MinOverSources(G, weight, sources) ==
    [n \in UNION {DOMAIN ShortestFrom(G, weight, s) : s \in sources} |->
        Least({ShortestFrom(G, weight, s)[n] :
                 s \in {s \in sources : PathExists(G, s, n)}})]

\* C11: the multi-source traversal gives every graph node the value a
\* single-source shortest-path computation per de-duplicated service node,
\* followed by the minimum over the sources, gives it; every service node
\* gets 0; the values depend on the set of service nodes only, not on how
\* many services were snapped to each.
C11_MultiSourceIsMinOfSingle ==
    Routing =>
       /\ NodeDistances = MinOverSources(graph, ret.arg, Sources)
       /\ \A s \in Sources : NodeDistances[s] = 0
       /\ \A i \in DOMAIN ret.value.service_nodes :
             ret.value.service_nodes[i] \in DOMAIN NodeDistances

\* two service nodes; junction 3 is nearer to one of them than to the other
C11_Witness ==
    /\ Routing
    /\ ret.arg = "length"
    /\ Sources = {1, 2}
    /\ PathExists(graph, 1, 3)
    /\ PathExists(graph, 2, 3)
    /\ ShortestFrom(graph, "length", 1)[3] > ShortestFrom(graph, "length", 2)[3]
    /\ NodeDistances[3] = ShortestFrom(graph, "length", 2)[3]

\* the weight of the shortest directed path from node p to the nearest of
\* the service nodes
ToNearestService(G, weight, p, sources) ==
    LET d == ShortestFrom(G, weight, p)
    IN IF sources \cap DOMAIN d = {} THEN Inf
       ELSE FromInt(Least({d[s] : s \in sources \cap DOMAIN d}))

\* C12 as stated: on a directed graph the nearest_dist of a population point
\* is the weight of the shortest directed path from the point's snapped node
\* to the nearest snapped service node (travel from the population to the
\* service), whatever the orientation of the edges; the offset between a
\* point and its node is not added.
C12_AsStated ==
    Routing =>
        \A i \in 1..Len(Population.rows) :
            /\ PopNodes[i] \in NearestNodes(graph, Population.rows[i].geometry)
            /\ NearestDist(i) = ToNearestService(graph, ret.arg, PopNodes[i], Sources)

\* a one-way street leads from the population point's node to the service
\* node, none leads back, and the point is reported as cut off
C12_Witness ==
    /\ Routing
    /\ Len(Population.rows) = 1
    /\ Sources = {2}
    /\ PopNodes = <<1>>
    /\ PathExists(graph, 1, 2)
    /\ ShortestFrom(graph, ret.arg, 1)[2] = 1
    /\ ~PathExists(graph, 2, 1)
    /\ NearestDist(1) = Inf

\* some path joins n and a service node, in one direction or the other
Linked(n) == \E s \in Sources : PathExists(graph, s, n) \/ PathExists(graph, n, s)
\* the traversal, which starts at the service nodes, arrives at n
Reached(n) == \E s \in Sources : PathExists(graph, s, n)

HasNegativeWeight(G, weight) == \E e \in G.edges : e[weight] < 0

\* C19 as stated: on a graph with a negative edge weight and with services,
\* calculate_network_distance fails and returns no distance column, wherever
\* the negative edge lies.
C19_AsStated ==
    (NetworkCall /\ HasServices /\ HasNegativeWeight(graph, ret.arg))
    => ret.status # "ok" /\ ret.ref = "none"

\* a negative weight on the way from the service: the call returns, with a
\* negative distance
C19_Witness ==
    /\ NetworkCall
    /\ HasServices
    /\ HasNegativeWeight(graph, ret.arg)
    /\ ret.status = "ok"
    /\ NearestDist(1) = FromInt(0)
    /\ NearestDist(2) = FromInt(-1)

LabPerCapitaCall == ret.op = "calculate_per_capita_metrics" /\ ret.arg = Fetched
Sentinel(v) == v.inf \/ (v.num = 0 /\ v.den > 0)

\* C14 as stated: a total population of zero, the empty dataset of
\* load_population included, is no error: calculate_coverage and
\* OSMSatLab.calculate_per_capita_metrics return sentinel values (0.0 or
\* +infinity) and do not raise.
C14_AsStated ==
    /\ (/\ ret.op = "calculate_coverage"
        /\ "nearest_dist" \in Analysed.cols
        /\ TotalWeight(Analysed) = 0)
       => /\ ret.status = "ok"
          /\ ret.value.coverage_ratio = Frac(0, 1)
          /\ ret.value.covered_population = 0
    /\ (LabPerCapitaCall /\ Weighted /\ TotalWeight(Population) = 0)
       => /\ ret.status = "ok"
          /\ Sentinel(ret.value.services_per_1000)
          /\ Sentinel(ret.value.people_per_service)

\* the lab holds the dataset stored when no population was found, and its
\* per-capita method raises
C14_Witness ==
    /\ LabPerCapitaCall
    /\ Population = no_population_found(MetricCrs)
    /\ NumServices = 1
    /\ ret.status = "ValueError"
    /\ ret.value = None

\* C15: calculate_coverage on a dataset without the named distance column
\* raises, whatever the rows and the threshold: no statistics are returned,
\* no warning about weights is given, no working copy is left.
C15_MissingDistanceColumn ==
    (ret.op = "calculate_coverage" /\ "nearest_dist" \notin Analysed.cols)
    => /\ ret.status = "ValueError"
       /\ ret.value = None
       /\ ret.warnings = {}
       /\ heap["work"] = NoDf

\* a dataset with neither rows nor a 'population' column
C15_Witness ==
    /\ ret.op = "calculate_coverage"
    /\ ret.arg = "population"
    /\ Len(Analysed.rows) = 0
    /\ Analysed.cols = {"geometry"}
    /\ ret.threshold = Inf
    /\ ret.status = "ValueError"

\* C16: calculate_coverage on a dataset with a distance column and no
\* 'population' column returns normally, with a warning, total_population =
\* the number of rows and covered_population = the number of rows with
\* distance <= threshold.
C16_DefaultWeights ==
    (/\ ret.op = "calculate_coverage"
     /\ "nearest_dist" \in Analysed.cols
     /\ "population" \notin Analysed.cols)
    => /\ ret.status = "ok"
       /\ "no population column" \in ret.warnings
       /\ ret.value.total_population = Len(Analysed.rows)
       /\ ret.value.covered_population = Cardinality(CoveredRows)

\* two locations, one of them within the threshold
C16_Witness ==
    /\ CoverageCall
    /\ "population" \notin Analysed.cols
    /\ ~ret.threshold.inf
    /\ Len(Analysed.rows) = 2
    /\ CoveredRows = {2}
    /\ ret.value.total_population = 2
    /\ ret.value.covered_population = 1
    /\ ret.value.coverage_ratio = Frac(1, 2)

\* C17: calculate_services_per_capita and calculate_population_per_service,
\* of metrics.per_capita and of metrics.equity, raise and return no value when
\* the population dataset has no 'population' column, whatever the services.
C17_MissingWeightColumn ==
    ((ServicesPerCapitaCall \/ PopulationPerServiceCall) /\ ~Weighted)
    => ret.status = "ValueError" /\ ret.value = None

\* metrics.equity, two rows without weights and one service: no 2.0
C17_Witness ==
    /\ PopulationPerServiceCall
    /\ ret.arg = "equity"
    /\ ~Weighted
    /\ Len(Population.rows) = 2
    /\ NumServices = 1
    /\ ret.status = "ValueError"

\* C18 as stated: on a lab with a population loaded and services fetched under
\* category c, calculate_equity_metrics(c) returns services_per_1000 =
\* count(services[c]) / sum of the weights * 1000, with people_per_service.
C18_AsStated ==
    (/\ ret.op = "calculate_equity_metrics"
     /\ ret.arg = Fetched
     /\ Weighted
     /\ TotalWeight(Population) > 0)
    => /\ ret.status = "ok"
       /\ IsNumber(ret.value.services_per_1000)
       /\ ret.value.services_per_1000.num * TotalWeight(Population)
             = NumServices * 1000 * ret.value.services_per_1000.den
       /\ "people_per_service" \in DOMAIN ret.value

\* the call of tests/test_core.py: one service, a population of 3
C18_Witness ==
    /\ ret.op = "calculate_equity_metrics"
    /\ ret.arg = Fetched
    /\ Len(Population.rows) = 2
    /\ TotalWeight(Population) = 3
    /\ NumServices = 1
    /\ ret.status = "AttributeError"

\* ---------------------------------------------------------------- claims on frames and the index
NearestCall == ret.op = "calculate_nearest_service_distance"

\* C21: calculate_nearest_service_distance on a population and services in
\* different coordinate frames raises: no dataset is returned and no
\* nearest_dist column is written on the population.
C21_FrameMismatchFails ==
    (NearestCall /\ Population.crs # Services.crs)
    => /\ ret.status = "ValueError"
       /\ ret.ref = "none"
       /\ "nearest_dist" \notin Population.cols

\* two metric frames, rows and services present
C21_Witness ==
    /\ NearestCall
    /\ Population.crs = MetricCrs
    /\ Services.crs = OtherMetricCrs
    /\ Len(Population.rows) = 2
    /\ Len(Services.rows) = 2
    /\ ret.status = "ValueError"
    /\ ret.warnings = {}

\* C22: when the population or the services are in a geographic frame,
\* calculate_nearest_service_distance warns, and warns only then; with both
\* in the same geographic frame it returns normally with a nearest_dist on
\* every row, so the angular frame by itself raises nothing.
C22_GeographicWarns ==
    NearestCall =>
       /\ ("geographic" \in ret.warnings
              <=> (Population.crs = GeographicCrs \/ Services.crs = GeographicCrs))
       /\ (Population.crs = Services.crs =>
              /\ ret.status = "ok"
              /\ SameRows(Returned_df, Population)
              /\ \A i \in 1..Len(Population.rows) :
                    Returned_df.rows[i].nearest_dist \in
                        {Sqrt(Dist2(Population.rows[i].geometry, q)) : q \in ServicePoints}
                        \cup (IF ServicePoints = {} THEN {Inf} ELSE {}))
       /\ (ret.status # "ok" => Population.crs # Services.crs)

\* degrees on both sides: a warning and distances
C22_Witness ==
    /\ NearestCall
    /\ Population.crs = GeographicCrs
    /\ Services.crs = GeographicCrs
    /\ Len(Population.rows) = 2
    /\ Len(Services.rows) = 1
    /\ ret.status = "ok"
    /\ ret.warnings = {"geographic"}
    /\ Returned_df.rows[1].nearest_dist # Returned_df.rows[2].nearest_dist

IndexCall == ret.op = "build_nearest_neighbor_index"

\* C23: build_nearest_neighbor_index raises and returns no index on a dataset
\* without rows; on every other dataset it returns an index over exactly the
\* dataset's points.
C23_IndexOverThePoints ==
    IndexCall =>
        IF Len(Services.rows) = 0
        THEN ret.status = "ValueError" /\ ret.value = None
        ELSE /\ ret.status = "ok"
             /\ Len(ret.value) = Len(Services.rows)
             /\ \A i \in 1..Len(Services.rows) : ret.value[i] = Services.rows[i].geometry

C23_Witness ==
    /\ IndexCall
    /\ Len(Services.rows) = 0
    /\ ret.status = "ValueError"
    /\ ret.value = None

\* ---------------------------------------------------------------- relational claims
CoverageAt(t) == calculate_coverage(heap, ret.arg, "nearest_dist", t).stats

\* C29: on one annotated dataset (weights are never negative), coverage at a
\* threshold t1 and at any threshold t2 >= t1 have the same total_population,
\* covered_population(t1) <= covered_population(t2) and
\* coverage_ratio(t1) <= coverage_ratio(t2).
C29_MonotoneInThreshold ==
    CoverageCall =>
        \A t \in {t2 \in Thresholds : Within(ret.threshold, t2)} :
            LET larger == CoverageAt(t)
            IN /\ larger.total_population = ret.value.total_population
               /\ ret.value.covered_population <= larger.covered_population
               /\ FracLe(ret.value.coverage_ratio, larger.coverage_ratio)

\* the larger threshold covers strictly more
C29_Witness ==
    /\ CoverageCall
    /\ ret.threshold = FromInt(0)
    /\ "population" \in Analysed.cols
    /\ ret.value.covered_population > 0
    /\ ret.value.covered_population < CoverageAt(FromInt(1)).covered_population
    /\ CoverageAt(Inf).covered_population = ret.value.total_population

\* the annotation the call made would have produced with only the services
\* that mask keeps (and, in network mode, with their nodes)
WithServices(mask) ==
    LET h == [heap EXCEPT !["services"].rows = filter_rows(@, mask),
                          !["result"] = NoDf]
    IN IF NearestCall
       THEN calculate_nearest_service_distance(h, "population", "services")
       ELSE calculate_network_distance(h, "population", "services", graph, ret.arg,
                                       ret.value.pop_nodes,
                                       filter_rows(ret.value.service_nodes, mask))

Masks == [1..Len(Services.rows) -> BOOLEAN]

\* C30: in Euclidean and in network mode, with the services S' of the call
\* and any part S of them (none included), every point's nearest_dist under
\* S' is <= its nearest_dist under S, and at every threshold the
\* covered_population under S' is >= the one under S.
C30_MoreServicesNeverFarther ==
    (AnnotateCall /\ ret.status = "ok") =>
        \A mask \in Masks :
            LET fewer == WithServices(mask)
            IN /\ fewer.status = "ok"
               /\ \A i \in 1..Len(Population.rows) :
                     Within(NearestDist(i), fewer.heap[fewer.ref].rows[i].nearest_dist)
               /\ \A t \in Thresholds :
                     calculate_coverage(fewer.heap, fewer.ref, "nearest_dist", t)
                            .stats.covered_population
                        <= calculate_coverage(heap, ret.ref, "nearest_dist", t)
                            .stats.covered_population

\* Euclidean mode: the second service is the nearer one for some point
C30_Witness ==
    /\ NearestCall
    /\ ret.status = "ok"
    /\ Len(Services.rows) = 2
    /\ Len(Population.rows) = 2
    /\ \E i \in 1..2 :
          LET fewer == WithServices(<<TRUE, FALSE>>)
          IN /\ ~NearestDist(i).inf
             /\ NearestDist(i) # fewer.heap[fewer.ref].rows[i].nearest_dist

\* ================================================================ the orchestrator
MetricOps == {"calculate_accessibility_metrics", "calculate_per_capita_metrics"}
AccessCall == ret.op = "calculate_accessibility_metrics"
GuardsPass == lab.population # None /\ ret.arg \in DOMAIN lab.services

\* C24: calculate_accessibility_metrics and calculate_per_capita_metrics
\* raise an error when the population is not loaded or the category asked
\* for is not among the fetched ones; the error about the category lists the
\* categories there are; the failed call asks for no download and leaves
\* population, services and networks of the object as they were.
C24_GuardsRaise ==
    [][(ret'.op \in MetricOps
          /\ (lab.population = None \/ ret'.arg \notin DOMAIN lab.services))
        => /\ ret'.status = "ValueError"
           /\ ret'.download = "none"
           /\ lab' = lab
           /\ (lab.population # None
                 => /\ ret'.value.missing = ret'.arg
                    /\ ret'.value.available_categories = DOMAIN lab.services)]_vars

\* a network-mode call for a category that was not fetched, one other being
\* there; no street network has been stored
C24_Witness ==
    /\ AccessCall
    /\ ret.metric_type = "drive"
    /\ ret.status = "ValueError"
    /\ lab.population # None
    /\ ret.arg = "education"
    /\ ret.value.available_categories = {"health"}
    /\ DOMAIN lab.networks = {}

\* a call in network mode that returned, and what it returned
NetworkMode == AccessCall /\ ret.metric_type \in NetworkTypes /\ ret.status = "ok"
Annotated == ret.value.population_gdf
Covered == ret.value.coverage_stats.covered_population

\* the travel time in seconds of row i: the least travel_time of a path
\* between a service's junction and the row's junction on the graph stored
\* for the network type, in the direction the router follows
JunctionOf(G, p) == CHOOSE n \in G.nodes : n \in NearestNodes(G, p)
TravelSeconds(i) ==
    LET G == lab.networks[ret.metric_type]
        points_of_interest == lab.services[ret.arg]
        sources == {JunctionOf(G, points_of_interest.rows[k].geometry) :
                      k \in 1..Len(points_of_interest.rows)}
        seconds == MinOverSources(G, "travel_time", sources)
        n == JunctionOf(G, lab.population.rows[i].geometry)
    IN IF sources = {} THEN Inf
       ELSE IF n \in DOMAIN seconds THEN FromInt(seconds[n])
       ELSE Inf
Times60(x) == [x EXCEPT !.sq = @ * 3600]
InTime(threshold) ==
    {i \in 1..Len(lab.population.rows) : Within(TravelSeconds(i), Times60(threshold))}
Reachable == {i \in 1..Len(lab.population.rows) : ~TravelSeconds(i).inf}

\* the conversion and the comparison, as far as both statements agree
MinutesFromSeconds ==
    /\ Len(Annotated.rows) = Len(lab.population.rows)
    /\ \A i \in 1..Len(Annotated.rows) :
          /\ Annotated.rows[i].nearest_dist.inf = TravelSeconds(i).inf
          /\ TravelSeconds(i).inf => Annotated.rows[i].nearest_dist = Inf
          /\ ~TravelSeconds(i).inf
                => Eq(Times60(Annotated.rows[i].nearest_dist), TravelSeconds(i))
    /\ Covered = WeightOf(lab.population, InTime(ret.threshold))

\* C25: in network mode calculate_accessibility_metrics routes on
\* travel_time, returns every finite travel time divided by 60 and +infinity
\* as it is, and counts a point as covered iff its travel time in seconds is
\* at most 60 times the threshold; an unreachable point is not covered at
\* any finite threshold.
C25_SecondsToMinutes ==
    NetworkMode =>
       /\ MinutesFromSeconds
       /\ (~ret.threshold.inf
             => Covered = WeightOf(lab.population, InTime(ret.threshold) \cap Reachable))

\* C25 as stated: an unreachable point is never covered, whatever the
\* threshold
C25_AsStated ==
    NetworkMode =>
       /\ MinutesFromSeconds
       /\ Covered = WeightOf(lab.population, InTime(ret.threshold) \cap Reachable)

\* one minute by car: the cell 60 s from the service is covered, the cell
\* 61 s from it is not
C25_Witness ==
    /\ NetworkMode
    /\ ret.metric_type = "drive"
    /\ ret.threshold = FromInt(1)
    /\ Len(lab.services[ret.arg].rows) > 0
    /\ Len(Annotated.rows) = 2
    /\ TravelSeconds(1) = FromInt(60)
    /\ TravelSeconds(2) = FromInt(61)
    /\ Annotated.rows[1].nearest_dist = [inf |-> FALSE, sq |-> 3600, den |-> 60]
    /\ Covered = lab.population.rows[1].population
    /\ ret.value.coverage_stats.total_population = 3

\* the same call made again on the object as it is now, whatever download
\* it would get: same outcome, same result
Repeatable ==
    IF AccessCall
    THEN \A G_raw \in IF ret.metric_type = "euclidean" THEN {None}
                      ELSE Downloads(ret.metric_type) :
           LET G == IF ret.metric_type = "euclidean" THEN NoGraph
                    ELSE network_of(lab, ret.metric_type, G_raw)
           IN \E pop_nodes \in snapped(G, lab.population),
                 service_nodes \in snapped(G, lab.services[ret.arg]) :
                LET again == calculate_accessibility_metrics(
                                 lab, ret.arg, ret.threshold, ret.metric_type,
                                 G_raw, pop_nodes, service_nodes)
                IN /\ again.status = ret.status
                   /\ again.value = ret.value
                   /\ again.lab = lab
    ELSE LET again == lab_per_capita_metrics(lab, ret.arg)
         IN /\ again.status = ret.status
            /\ again.value = ret.value

\* C26: a call of calculate_accessibility_metrics or
\* calculate_per_capita_metrics leaves lab.population and lab.services as
\* they were, so they stay as the last load or fetch left them and
\* lab.population never has a nearest_dist column; a call that returns a
\* result returns the one the same call returns whenever it is made again
\* on the loaded data.
C26_MetricsReadOnly ==
    /\ []((ret.op \in MetricOps /\ ret.status = "ok") => Repeatable)
    /\ [][ret'.op \in MetricOps
          => /\ lab'.population = lab.population
             /\ lab'.services = lab.services
             /\ (lab'.population # None
                   => "nearest_dist" \notin lab'.population.cols)]_vars

\* a network-mode call has returned an annotated copy with two rows
C26_Witness ==
    /\ NetworkMode
    /\ Len(lab.population.rows) = 2
    /\ "nearest_dist" \in Annotated.cols
    /\ ~Annotated.rows[1].nearest_dist.inf
    /\ "nearest_dist" \notin lab.population.cols
    /\ lab.population.cols = {"population", "geometry"}

\* the outcome of the network-mode call on the graph G, for some snapping
RoutedOn(G) ==
    \E pop_nodes \in snapped(G, lab.population),
       service_nodes \in snapped(G, lab.services[ret.arg]) :
        LET h == InitHeap(lab.population, lab.services[ret.arg])
            out == calculate_network_distance(h, "population", "services", G,
                                              "travel_time", pop_nodes, service_nodes)
        IN /\ out.status = "ok"
           /\ \A i \in 1..Len(Annotated.rows) :
                 Eq(Times60(Annotated.rows[i].nearest_dist),
                    out.heap[out.ref].rows[i].nearest_dist)

\* C27: calculate_accessibility_metrics asks for the download of a street
\* network only in network mode and only when lab.networks has no entry for
\* the metric_type; a download that brings a graph leaves the entry present;
\* no method ever removes an entry, so a later call finds it and a
\* metric_type is downloaded at most once; the call routes on the entry's
\* graph, and leaves every entry that was there, of this or another type,
\* as it was.
C27_DownloadedOnce ==
    /\ [](NetworkMode => RoutedOn(lab.networks[ret.metric_type]))
    /\ [][/\ DOMAIN lab.networks \subseteq DOMAIN lab'.networks
          /\ ret'.op = "calculate_accessibility_metrics"
               => /\ ret'.download # "none"
                     => /\ ret'.metric_type \in NetworkTypes
                        /\ ret'.metric_type \notin DOMAIN lab.networks
                  /\ ret'.download = "found"
                     => ret'.metric_type \in DOMAIN lab'.networks
                  /\ \A t \in DOMAIN lab.networks :
                        lab'.networks[t] = lab.networks[t]
                  /\ DOMAIN lab'.networks \subseteq
                        DOMAIN lab.networks \cup {ret'.metric_type}]_vars

\* a network-mode call on the cached 'drive' network, which is the one with
\* the one-way street; the 'walk' network is there too; nothing downloaded
C27_Witness ==
    /\ NetworkMode
    /\ ret.metric_type = "drive"
    /\ ret.download = "none"
    /\ DOMAIN lab.networks = NetworkTypes
    /\ Cardinality(lab.networks["drive"].edges) = 3
    /\ Len(lab.services[ret.arg].rows) > 0
    /\ Len(Annotated.rows) = 2
    /\ Annotated.rows[1].nearest_dist = Inf

\* every dataset the object holds is in the object's frame
InTargetFrame ==
    /\ lab.population # None => lab.population.crs = lab.target_crs
    /\ \A c \in DOMAIN lab.services : lab.services[c].crs = lab.target_crs

\* C28: after any sequence of load_population and fetch_services calls
\* lab.population, once loaded, and every lab.services[c] are in the
\* target CRS; when the download brings nothing a dataset without rows in
\* the target CRS is stored, the category is registered all the same and the
\* other categories stay as they were; so a Euclidean
\* calculate_accessibility_metrics call that passes the two guards never
\* raises the frame mismatch error.
C28_TargetFrame ==
    /\ [](/\ InTargetFrame
          /\ (AccessCall /\ ret.metric_type = "euclidean" /\ GuardsPass)
                => ret.status = "ok")
    /\ [][/\ ret'.op = "load_population"
               => /\ lab'.population # None
                  /\ lab'.services = lab.services
                  /\ ret'.download = "nothing"
                        => /\ Len(lab'.population.rows) = 0
                           /\ lab'.population.cols = {"population", "geometry"}
          /\ ret'.op = "fetch_services"
               => /\ DOMAIN lab'.services = DOMAIN lab.services \cup {ret'.arg}
                  /\ \A c \in DOMAIN lab.services \ {ret'.arg} :
                        lab'.services[c] = lab.services[c]
                  /\ lab'.population = lab.population
                  /\ ret'.download = "nothing"
                        => /\ Len(lab'.services[ret'.arg].rows) = 0
                           /\ lab'.services[ret'.arg].cols = {"geometry"}]_vars

\* a fetch that found nothing, after one that found services and a load
\* that found people: the points were moved to the projected frame
C28_Witness ==
    /\ ret.op = "fetch_services"
    /\ ret.download = "nothing"
    /\ ret.arg = "education"
    /\ DOMAIN lab.services = Categories
    /\ Len(lab.services["education"].rows) = 0
    /\ Len(lab.services["health"].rows) = 2
    /\ lab.services["health"].rows[2].geometry = <<0, 0>>
    /\ lab.target_crs = MetricCrs
    /\ lab.population # None
    /\ Len(lab.population.rows) = 2
    /\ lab.population.rows[1].geometry = <<2, 0>>
    /\ lab.population.crs = MetricCrs

====
